---- MODULE Spec2Model ----
(***************************************************************************)
(* Model of the meal-maker fridge module (src/fridge.py): FoodType,        *)
(* FoodItem, FoodList and RecipeBuilder.                                   *)
(*                                                                         *)
(* Python strings are sequences of one-character strings, so that strip,   *)
(* split, int() and the name + type grouping key are computed as the code  *)
(* computes them.  A datetime.date is its proleptic Gregorian ordinal      *)
(* (date(1, 1, 1) is 1); None is 0.  FoodItem objects are mutable          *)
(* and shared by reference between the fridge and the lists derived from   *)
(* it, so a derived list is a sequence of positions in the fridge.         *)
(***************************************************************************)
EXTENDS Integers, Sequences, FiniteSets, TLC

(* ------------------------ FoodItem and RecipeItem --------------------- *)
\* None, as an expiry and as the result of _get_cooking_date.
None == 0

FoodItem(amt, food_type, name, date) ==
  [name |-> name, amount |-> amt, type |-> food_type, expiry |-> date]

RecipeItem(name, ingredients) == [name |-> name, ingredients |-> ingredients]

NoRecipe == RecipeItem("Order Takeout", <<>>)

VARIABLES
  fridge,    \* rb.fridge.items (for FoodList calls: the list's items)
  recipes,   \* rb.recipes
  todays,    \* rb.todays
  today,     \* datetime.date.today()
  op,        \* the last call made (or "midnight")
  old,       \* the items as the last call found them
  out,       \* the FoodList the last call returned or, in todays_recipe, used
  was,       \* rb.todays as the last call found it
  raised,    \* the last call raised an exception to its caller
  failed,    \* the last build_fridge_item printed "Failed to parse fridge item"
  bad_args,  \* the last build_fridge_item was given malformed arguments
  refs,      \* the FoodList the last FoodList call returned, as positions in fridge
  given,     \* the list the last _compact_food_list or _get_cooking_date call
             \* was given (the food, the ingredients)
  date,      \* what the last _get_cooking_date call returned
  pc,        \* run.py: where each handler thread stands
  req,       \* run.py: the request each handler thread serves
  disk,      \* run.py: the contents of FRIDGE_FILE and RECIPE_FILE
  reply,     \* run.py: the last response written
  dirty      \* rb.fridge or rb.recipes was rebuilt after rb.todays was computed

vars == <<fridge, recipes, todays, today, op, old, out, was, raised, failed, bad_args,
         refs, given, date,
         pc, req, disk, reply, dirty>>

\* The variables of the server.
server == <<pc, req, disk, reply, dirty>>

(* ------------------------------ bounds -------------------------------- *)
MaxThreads == 2
MaxItems == 3
MaxAmount == 6
LastDay == 3

(* ------------------------------ strings ------------------------------- *)
Ord(c) ==
  CASE c = " " -> 32
    [] c = "+" -> 43
    [] c = "-" -> 45
    [] c = "/" -> 47
    [] c = "0" -> 48
    [] c = "1" -> 49
    [] c = "2" -> 50
    [] c = "3" -> 51
    [] c = "4" -> 52
    [] c = "5" -> 53
    [] c = "6" -> 54
    [] c = "7" -> 55
    [] c = "8" -> 56
    [] c = "9" -> 57
    [] c = "a" -> 97
    [] c = "b" -> 98
    [] c = "c" -> 99
    [] c = "d" -> 100
    [] c = "e" -> 101
    [] c = "f" -> 102
    [] c = "g" -> 103
    [] c = "i" -> 105
    [] c = "l" -> 108
    [] c = "m" -> 109
    [] c = "o" -> 111
    [] c = "r" -> 114
    [] c = "s" -> 115
    [] c = "x" -> 120

RECURSIVE StrLess(_, _)
StrLess(s, t) ==
  IF t = <<>> THEN FALSE
  ELSE IF s = <<>> THEN TRUE
  ELSE IF Ord(Head(s)) # Ord(Head(t)) THEN Ord(Head(s)) < Ord(Head(t))
  ELSE StrLess(Tail(s), Tail(t))

RECURSIVE LStrip(_)
LStrip(s) == IF s # <<>> /\ Head(s) = " " THEN LStrip(Tail(s)) ELSE s

RECURSIVE RStrip(_)
RStrip(s) ==
  IF s # <<>> /\ s[Len(s)] = " " THEN RStrip(SubSeq(s, 1, Len(s) - 1)) ELSE s

Strip(s) == RStrip(LStrip(s))

RECURSIVE Split(_, _)
Split(s, sep) ==
  IF \E i \in 1..Len(s) : s[i] = sep
  THEN LET i == CHOOSE k \in 1..Len(s) :
                  s[k] = sep /\ \A j \in 1..(k - 1) : s[j] # sep
       IN <<SubSeq(s, 1, i - 1)>> \o Split(SubSeq(s, i + 1, Len(s)), sep)
  ELSE <<s>>

Reversed(s) == [i \in 1..Len(s) |-> s[Len(s) + 1 - i]]

(* ------------------------------- int() -------------------------------- *)
Digits == {"0", "1", "2", "3", "4", "5", "6", "7", "8", "9"}

DigitVal(c) == Ord(c) - Ord("0")

RECURSIVE DigitsVal(_)
DigitsVal(s) ==
  IF s = <<>> THEN 0
  ELSE DigitsVal(SubSeq(s, 1, Len(s) - 1)) * 10 + DigitVal(s[Len(s)])

\* int(s) of a str: surrounding whitespace and one sign are accepted, then at
\* least one digit and nothing else; anything else is a ValueError (ok = FALSE).
IntOfStr(s) ==
  LET t == Strip(s)
      signed == t # <<>> /\ Head(t) \in {"-", "+"}
      body == IF signed THEN Tail(t) ELSE t
      good == body # <<>> /\ \A i \in 1..Len(body) : body[i] \in Digits
  IN IF ~good THEN [ok |-> FALSE, val |-> 0]
     ELSE [ok |-> TRUE,
           val |-> IF signed /\ Head(t) = "-" THEN 0 - DigitsVal(body)
                   ELSE DigitsVal(body)]

\* A Python value handed to int(): an int or a str.
PyInt(n) == <<"int", n>>
PyStr(s) == <<"str", s>>

Int_(v) == IF v[1] = "int" THEN [ok |-> TRUE, val |-> v[2]] ELSE IntOfStr(v[2])

(* ------------------------- datetime.date(y, m, d) --------------------- *)
IsLeap(y) == y % 4 = 0 /\ (y % 100 # 0 \/ y % 400 = 0)

DaysInMonth(y, m) ==
  IF m = 2 THEN (IF IsLeap(y) THEN 29 ELSE 28)
  ELSE IF m \in {4, 6, 9, 11} THEN 30 ELSE 31

RECURSIVE DaysBeforeMonth(_, _)
DaysBeforeMonth(y, m) ==
  IF m = 1 THEN 0 ELSE DaysBeforeMonth(y, m - 1) + DaysInMonth(y, m - 1)

DaysBeforeYear(y) ==
  (y - 1) * 365 + ((y - 1) \div 4) - ((y - 1) \div 100) + ((y - 1) \div 400)

\* datetime.date(*args): exactly three integers forming a calendar date, or an
\* exception (ok = FALSE).  The value is the date's ordinal.
Date(args) ==
  IF Len(args) # 3 THEN [ok |-> FALSE, val |-> 0]
  ELSE LET y == args[1]
           m == args[2]
           d == args[3]
       IN IF y \in 1..9999 /\ m \in 1..12 /\ d >= 1 /\ d <= DaysInMonth(y, m)
          THEN [ok |-> TRUE, val |-> DaysBeforeYear(y) + DaysBeforeMonth(y, m) + d]
          ELSE [ok |-> FALSE, val |-> 0]

\* datetime.date(*map(int, reversed(expiry.strip().split('/'))))
ParseExpiry(expiry) ==
  LET parts == Reversed(Split(Strip(expiry), "/"))
      ints == [i \in 1..Len(parts) |-> IntOfStr(parts[i])]
  IN IF \E i \in 1..Len(parts) : ~ints[i].ok THEN [ok |-> FALSE, val |-> 0]
     ELSE Date([i \in 1..Len(parts) |-> ints[i].val])

(* ------------------------------ FoodType ------------------------------ *)
SINGLE == <<"o", "f">>
GRAMS == <<"g", "r", "a", "m", "s">>
ML == <<"m", "l">>
SLICES == <<"s", "l", "i", "c", "e", "s">>

FoodTypes == {SINGLE, GRAMS, ML, SLICES}

\* FoodType.build: the string itself, or an exception (ok = FALSE).
FoodTypeBuild(string) == [ok |-> string \in FoodTypes, val |-> string]

(* ------------------------------ FoodList ------------------------------ *)
\* build_fridge_item: the item the arguments parse to, or parsed = FALSE when
\* any step raises inside the try block.  An expiry argument that is None or
\* the empty string is falsy and leaves the expiry unset.
\* build_fridge_item without its amount <= 0 test.
ParseFridgeItem_AnyAmount(name, amt, food_type, expiry) ==
  LET nm == Strip(name)
      ty == FoodTypeBuild(Strip(food_type))
      am == Int_(amt)
      ex == IF expiry # <<>> THEN ParseExpiry(expiry)
            ELSE [ok |-> TRUE, val |-> None]
  IN IF nm = <<>> \/ ~ty.ok \/ ~am.ok THEN [parsed |-> FALSE]
     ELSE IF ~ex.ok THEN [parsed |-> FALSE]
     ELSE [parsed |-> TRUE, item |-> FoodItem(am.val, ty.val, nm, ex.val)]

ParseFridgeItem(name, amt, food_type, expiry) ==
  LET nm == Strip(name)
      ty == FoodTypeBuild(Strip(food_type))
      am == Int_(amt)
      ex == IF expiry # <<>> THEN ParseExpiry(expiry)
            ELSE [ok |-> TRUE, val |-> None]
  IN IF nm = <<>> \/ ~ty.ok \/ ~am.ok THEN [parsed |-> FALSE]
     ELSE IF am.val <= 0 \/ ~ex.ok THEN [parsed |-> FALSE]
     ELSE [parsed |-> TRUE, item |-> FoodItem(am.val, ty.val, nm, ex.val)]

\* The items list after build_fridge_item(name, amt, food_type, expiry).
build_fridge_item(items, name, amt, food_type, expiry) ==
  LET r == ParseFridgeItem(name, amt, food_type, expiry)
  IN IF r.parsed THEN Append(items, r.item) ELSE items

\* sorted(food, key=lambda x: x.name) and sorted(items, key=lambda x: x.expiry)
\* on lists of references (positions in items).  Python's sort is stable: an
\* element goes after every element whose key is not greater than its own.
InsertByName(items, srt, x) ==
  LET later == {k \in 1..Len(srt) : StrLess(items[x].name, items[srt[k]].name)}
      at == IF later = {} THEN Len(srt) + 1
            ELSE CHOOSE k \in later : \A j \in later : k <= j
  IN SubSeq(srt, 1, at - 1) \o <<x>> \o SubSeq(srt, at, Len(srt))

RECURSIVE SortedByName(_, _)
SortedByName(items, food) ==
  IF food = <<>> THEN <<>>
  ELSE InsertByName(items, SortedByName(items, SubSeq(food, 1, Len(food) - 1)),
                    food[Len(food)])

InsertByExpiry(items, srt, x) ==
  LET later == {k \in 1..Len(srt) : items[x].expiry < items[srt[k]].expiry}
      at == IF later = {} THEN Len(srt) + 1
            ELSE CHOOSE k \in later : \A j \in later : k <= j
  IN SubSeq(srt, 1, at - 1) \o <<x>> \o SubSeq(srt, at, Len(srt))

RECURSIVE SortedByExpiry(_, _)
SortedByExpiry(items, food) ==
  IF food = <<>> THEN <<>>
  ELSE InsertByExpiry(items, SortedByExpiry(items, SubSeq(food, 1, Len(food) - 1)),
                      food[Len(food)])

\* itertools.groupby(food, key=lambda x: x.name + x.type): a new group starts
\* whenever the key differs from the key of the element before it.
GroupKey(x) == x.name \o x.type

RECURSIVE GroupBy(_, _)
GroupBy(items, food) ==
  IF food = <<>> THEN <<>>
  ELSE LET g == GroupBy(items, SubSeq(food, 1, Len(food) - 1))
           x == food[Len(food)]
       IN IF g # <<>> /\ GroupKey(items[g[Len(g)][1]]) = GroupKey(items[x])
          THEN [g EXCEPT ![Len(g)] = Append(@, x)]
          ELSE Append(g, <<x>>)

\* The sum with every amount counted twice.
RECURSIVE SumAmount_Twice(_, _)
SumAmount_Twice(items, same_foods) ==
  IF same_foods = <<>> THEN 0
  ELSE 2 * items[Head(same_foods)].amount + SumAmount_Twice(items, Tail(same_foods))

RECURSIVE SumAmount(_, _)
SumAmount(items, same_foods) ==
  IF same_foods = <<>> THEN 0
  ELSE items[Head(same_foods)].amount + SumAmount(items, Tail(same_foods))

\* _compact_food_list(food).  food is a list of references to FoodItem objects
\* of items, given as positions in items.  The first object of each group is
\* put in the output and its amount is assigned the group's sum, so the object
\* in items changes too.  The result is the items after the call and the
\* returned list (positions in items).
_compact_food_list(items, food) ==
  LET grouped_list == GroupBy(items, SortedByName(items, food))
      n == Len(grouped_list)
  IN [items |->
        [i \in 1..Len(items) |->
           IF \E k \in 1..n : grouped_list[k][1] = i
           THEN LET k == CHOOSE h \in 1..n : grouped_list[h][1] = i
                IN FoodItem(SumAmount(items, grouped_list[k]), items[i].type,
                            items[i].name, items[i].expiry)
           ELSE items[i]],
      list |-> [k \in 1..n |-> grouped_list[k][1]]]

\* todays_food dropping the entries that expire today.
todays_food_Strict(items, now) ==
  IF \E i \in 1..Len(items) : items[i].expiry = None
  THEN [raised |-> TRUE, items |-> items, list |-> <<>>]
  ELSE LET sorted_food == SortedByExpiry(items, [i \in 1..Len(items) |-> i])
           edible == SelectSeq(sorted_food, LAMBDA i : items[i].expiry > now)
           food == _compact_food_list(items, edible)
       IN [raised |-> FALSE, items |-> food.items, list |-> food.list]

\* todays_food().  Python 2 raises TypeError when a date is ordered against
\* None, in sorted() or in the filter, so the call raises when any item has no
\* expiry; nothing has been changed by then.
todays_food(items, now) ==
  IF \E i \in 1..Len(items) : items[i].expiry = None
  THEN [raised |-> TRUE, items |-> items, list |-> <<>>]
  ELSE LET sorted_food == SortedByExpiry(items, [i \in 1..Len(items) |-> i])
           edible == SelectSeq(sorted_food, LAMBDA i : items[i].expiry >= now)
           food == _compact_food_list(items, edible)
       IN [raised |-> FALSE, items |-> food.items, list |-> food.list]

\* The FoodItem values a list of references denotes.
Deref(items, list) == [k \in 1..Len(list) |-> items[list[k]]]

(* ---------------------------- RecipeBuilder --------------------------- *)
\* A CSV file is <<exists, rows>>, each row the list of its fields.  A JSON
\* file is <<exists, valid, data>>, valid when json.load succeeds.  A JSON
\* object is the set of keys it has followed by their values; looking up a
\* key it does not have raises KeyError.
Exists(file) == file[1]
Rows(file) == file[2]
Valid(file) == file[2]
Data(file) == file[3]
Keys(obj) == obj[1]
Field(obj, i) == obj[i + 1]

\* The loop of build_fridge: build_fridge_item(*line) takes three or four
\* arguments; any other row raises TypeError at the call, outside
\* build_fridge_item's own try block, and the except clause around the loop
\* ends the reading.
RECURSIVE ReadRows(_, _)
ReadRows(items, rows) ==
  IF rows = <<>> THEN items
  ELSE LET line == Head(rows)
       IN IF Len(line) \notin {3, 4} THEN items
          ELSE ReadRows(
                 build_fridge_item(items, line[1], PyStr(line[2]), line[3],
                                   IF Len(line) = 4 THEN line[4] ELSE <<>>),
                 Tail(rows))

\* build_fridge(filename): the new fridge (clear is left at its default).
build_fridge(file) == IF Exists(file) THEN ReadRows(<<>>, Rows(file)) ELSE <<>>

\* The ingredient loop of build_recipes for one recipe: a missing key or an
\* amount that int() rejects raises out of the loop (ok = FALSE).
RECURSIVE ReadIngredients(_, _)
ReadIngredients(items, ys) ==
  IF ys = <<>> THEN [ok |-> TRUE, items |-> items]
  ELSE LET y == Head(ys)
       IN IF ~({"item", "amount", "unit"} \subseteq Keys(y))
          THEN [ok |-> FALSE, items |-> items]
          ELSE IF ~Int_(Field(y, 2)).ok THEN [ok |-> FALSE, items |-> items]
          ELSE ReadIngredients(
                 build_fridge_item(items, Strip(Field(y, 1)),
                                   PyInt(Int_(Field(y, 2)).val),
                                   Strip(Field(y, 3)), <<>>),
                 Tail(ys))

\* The recipe loop of build_recipes: an exception anywhere ends the whole
\* loop; the recipes appended before it stay.
RECURSIVE ReadRecipes(_, _)
ReadRecipes(recs, xs) ==
  IF xs = <<>> THEN recs
  ELSE LET x == Head(xs)
       IN IF "ingredients" \notin Keys(x) THEN recs
          ELSE LET r == ReadIngredients(<<>>, Field(x, 2))
               IN IF ~r.ok \/ "name" \notin Keys(x) THEN recs
                  ELSE ReadRecipes(Append(recs, RecipeItem(Field(x, 1), r.items)),
                                   Tail(xs))

\* build_recipes(filename): the new recipe list.
build_recipes(file) ==
  IF Exists(file) /\ Valid(file) THEN ReadRecipes(<<>>, Data(file)) ELSE <<>>

Min(dates) == CHOOSE d \in {dates[i] : i \in 1..Len(dates)} :
                \A i \in 1..Len(dates) : d <= dates[i]

\* The loop of _get_cooking_date from ingredient k on.
\* The loop ending at an unmatched ingredient without clearing found.
RECURSIVE CookingScan_KeepFound(_, _, _, _)
CookingScan_KeepFound(ingredients, food_list, k, dates) ==
  IF k > Len(ingredients) THEN [found |-> k > 1, dates |-> dates]
  ELSE LET y == ingredients[k]
           hits == {j \in 1..Len(food_list) :
                      food_list[j].name = y.name /\ food_list[j].amount >= y.amount}
       IN IF hits = {} THEN [found |-> k > 1, dates |-> dates]
          ELSE LET z == CHOOSE j \in hits : \A h \in hits : j <= h
               IN CookingScan_KeepFound(ingredients, food_list, k + 1,
                                        Append(dates, food_list[z].expiry))

\* The loop taking, of the entries that match, the one that expires first.
RECURSIVE CookingScan_Earliest(_, _, _, _)
CookingScan_Earliest(ingredients, food_list, k, dates) ==
  IF k > Len(ingredients) THEN [found |-> k > 1, dates |-> dates]
  ELSE LET y == ingredients[k]
           hits == {j \in 1..Len(food_list) :
                      food_list[j].name = y.name /\ food_list[j].amount >= y.amount}
       IN IF hits = {} THEN [found |-> FALSE, dates |-> dates]
          ELSE LET z == CHOOSE j \in hits :
                          \A h \in hits : food_list[j].expiry <= food_list[h].expiry
               IN CookingScan_Earliest(ingredients, food_list, k + 1,
                                       Append(dates, food_list[z].expiry))

\* The loop matching on the kind as well.
RECURSIVE CookingScan_SameKind(_, _, _, _)
CookingScan_SameKind(ingredients, food_list, k, dates) ==
  IF k > Len(ingredients) THEN [found |-> k > 1, dates |-> dates]
  ELSE LET y == ingredients[k]
           hits == {j \in 1..Len(food_list) :
                      /\ food_list[j].name = y.name
                      /\ food_list[j].type = y.type
                      /\ food_list[j].amount >= y.amount}
       IN IF hits = {} THEN [found |-> FALSE, dates |-> dates]
          ELSE LET z == CHOOSE j \in hits : \A h \in hits : j <= h
               IN CookingScan_SameKind(ingredients, food_list, k + 1,
                                       Append(dates, food_list[z].expiry))

RECURSIVE CookingScan(_, _, _, _)
CookingScan(ingredients, food_list, k, dates) ==
  IF k > Len(ingredients) THEN [found |-> k > 1, dates |-> dates]
  ELSE LET y == ingredients[k]
           hits == {j \in 1..Len(food_list) :
                      food_list[j].name = y.name /\ food_list[j].amount >= y.amount}
       IN IF hits = {} THEN [found |-> FALSE, dates |-> dates]
          ELSE LET z == CHOOSE j \in hits : \A h \in hits : j <= h
               IN CookingScan(ingredients, food_list, k + 1,
                              Append(dates, food_list[z].expiry))

\* to_json(): the fridge entries with the days they have left and the
\* selected recipe; date arithmetic on an expiry of None raises.
ItemString(item) == <<item.amount, item.type, item.name>>

to_json(items, cur, now) ==
  IF \E i \in 1..Len(items) : items[i].expiry = None
  THEN <<FALSE>>
  ELSE <<TRUE,
         [i \in 1..Len(items) |-> <<ItemString(items[i]), items[i].expiry - now>>],
         <<cur.name, [i \in 1..Len(cur.ingredients) |-> ItemString(cur.ingredients[i])]>>>>

\* _get_cooking_date taking a recipe without ingredients as cookable from the
\* first day on.
_get_cooking_date_EmptyFound(ingredients, food_list) ==
  LET r == CookingScan(ingredients, food_list, 1, <<>>)
  IN IF ingredients = <<>> THEN 1
     ELSE IF r.found THEN Min(r.dates) ELSE None

\* _get_cooking_date(ingredients, food_list): a date, or None.
_get_cooking_date(ingredients, food_list) ==
  LET r == CookingScan(ingredients, food_list, 1, <<>>)
  IN IF r.found THEN Min(r.dates) ELSE None

\* min(recipe_list, key=lambda x: x[0]): the first pair with the least date.
MinByDate_Last(recipe_list) ==
  recipe_list[CHOOSE k \in 1..Len(recipe_list) :
                /\ \A j \in 1..Len(recipe_list) : recipe_list[k][1] <= recipe_list[j][1]
                /\ \A j \in (k + 1)..Len(recipe_list) :
                     recipe_list[j][1] # recipe_list[k][1]]

MinByDate(recipe_list) ==
  recipe_list[CHOOSE k \in 1..Len(recipe_list) :
                /\ \A j \in 1..Len(recipe_list) : recipe_list[k][1] <= recipe_list[j][1]
                /\ \A j \in 1..(k - 1) : recipe_list[j][1] # recipe_list[k][1]]

\* todays_recipe(): raises when todays_food() raises, and self.todays keeps
\* its old value then.  Otherwise the fridge after the call (todays_food
\* changes its objects), the available food and the new self.todays.
todays_recipe(items, recs, cur, now) ==
  LET food == todays_food(items, now)
      all_list == Deref(food.items, food.list)
      dated == [k \in 1..Len(recs) |->
                  <<_get_cooking_date(recs[k].ingredients, all_list), recs[k]>>]
      recipe_list == SelectSeq(dated, LAMBDA x : x[1] # None)
  IN IF food.raised
     THEN [raised |-> TRUE, items |-> items, all_list |-> <<>>, todays |-> cur]
     ELSE [raised |-> FALSE, items |-> food.items, all_list |-> all_list,
           todays |-> IF recipe_list # <<>> THEN MinByDate(recipe_list)[2]
                      ELSE NoRecipe]

(* ------------------------------- inputs ------------------------------- *)
Str1(a) == <<a>>
Str2(a, b) == <<a, b>>
DateStr(d) == <<d, "/", "1", "/", "1">>

Today0 == 2

\* Arguments of build_fridge_item: every combination of well-formed name,
\* amount and type expiring today, items expiring yesterday and tomorrow, one
\* item without an expiry, and one call per way of being malformed.
GoodNames == {Str1("a"), Str2(" ", "b")}
GoodAmounts == {PyInt(1), PyStr(Str1("2"))}
GoodTypes == {SINGLE, Str1(" ") \o ML}

OtherItemArgs ==
  { <<Str1("a"), PyInt(1), SINGLE, DateStr("1")>>,
    <<Str2(" ", "b"), PyStr(Str1("2")), Str1(" ") \o ML, DateStr("1")>>,
    <<Str1("a"), PyInt(1), SINGLE, DateStr("3")>>,
    <<Str1("a"), PyInt(1), SINGLE, <<>>>> }

\* Dated items for lists given to _get_cooking_date in any order: one name
\* with different amounts and expiries, a second name, and a malformed call.
CookingItemArgs ==
  { <<Str1("a"), PyInt(1), SINGLE, DateStr("3")>>,
    <<Str1("a"), PyStr(Str1("2")), Str1(" ") \o ML, DateStr("2")>>,
    <<Str1("a"), PyInt(1), SINGLE, DateStr("1")>>,
    <<Str1("a"), PyStr(Str1("2")), SINGLE, DateStr("2")>>,
    <<Str2(" ", "b"), PyStr(Str1("2")), Str1(" ") \o ML, DateStr("1")>>,
    <<Str1("a"), PyInt(1), Str2("o", "x"), DateStr("2")>> }

BadItemArgs ==
  { <<<<>>, PyInt(1), SINGLE, DateStr("2")>>,
    <<Str1(" "), PyInt(1), SINGLE, DateStr("2")>>,
    <<Str1("a"), PyStr(Str1("x")), SINGLE, DateStr("2")>>,
    <<Str1("a"), PyStr(<<>>), SINGLE, DateStr("2")>>,
    <<Str1("a"), PyInt(0 - 2), SINGLE, DateStr("2")>>,
    <<Str1("a"), PyStr(Str1("0")), SINGLE, DateStr("2")>>,
    <<Str1("a"), PyInt(1), Str2("o", "x"), DateStr("2")>>,
    <<Str1("a"), PyInt(1), SINGLE, Str1("x")>>,
    <<Str1("a"), PyInt(1), SINGLE, Str2("1", "/") \o Str1("1")>>,
    <<Str1("a"), PyInt(1), SINGLE, Str2("3", "1") \o Str2("/", "2") \o Str2("/", "1")>> }

ItemArgs ==
  (GoodNames \X GoodAmounts \X GoodTypes \X {DateStr("2")})
    \cup OtherItemArgs \cup BadItemArgs

\* Fridge files: rows as csv.reader yields them.
RowA == <<Str1("a"), Str1("1"), SINGLE, DateStr("2")>>
RowA3 == <<Str1("a"), Str1("1"), SINGLE, DateStr("3")>>
RowB == <<Str1("b"), Str1("1"), SINGLE, DateStr("3")>>
RowM == <<Str1("a"), Str1("2"), ML, DateStr("3")>>
RowNoExpiry == <<Str1("a"), Str1("1"), SINGLE>>
RowEmpty == <<>>
RowShort == <<Str1("a"), Str1("1")>>
RowLong == <<Str1("a"), Str1("1"), SINGLE, DateStr("2"), Str1("x")>>
RowBadAmount == <<Str1("a"), Str1("x"), SINGLE, DateStr("2")>>

Csv(rows) == <<TRUE, rows>>
MissingCsv == <<FALSE, <<>>>>

FridgeFiles ==
  { MissingCsv, Csv(<<>>), Csv(<<RowA>>),
    Csv(<<RowA3, RowA>>), Csv(<<RowA, RowM, RowA3>>), Csv(<<RowB, RowA>>), Csv(<<RowM, RowA>>),
    Csv(<<RowA, RowNoExpiry>>),
    Csv(<<RowEmpty, RowA>>), Csv(<<RowShort, RowA>>), Csv(<<RowLong, RowA>>),
    Csv(<<RowBadAmount, RowA>>) }

\* Recipe files: the objects json.load yields.
Ing(item, amount, unit) == <<{"item", "amount", "unit"}, item, amount, unit>>

IngA1 == Ing(Str1("a"), PyStr(Str1("1")), GRAMS)
IngA3 == Ing(Str1("a"), PyInt(3), GRAMS)
IngA2 == Ing(Str1("a"), PyStr(Str1("2")), GRAMS)
IngB1 == Ing(Str2(" ", "b"), PyStr(Str1("1")), GRAMS)
IngBadAmount == Ing(Str1("b"), PyStr(Str1("x")), GRAMS)
IngNoAmount == <<{"item", "unit"}, Str1("b"), PyInt(1), GRAMS>>
IngBadUnit == Ing(Str1("b"), PyInt(1), Str2("o", "x"))

Rec(name, ingredients) == <<{"name", "ingredients"}, name, ingredients>>

RecNoName == <<{"ingredients"}, "", <<IngA1>>>>

Json(data) == <<TRUE, TRUE, data>>
MissingJson == <<FALSE, FALSE, <<>>>>
InvalidJson == <<TRUE, FALSE, <<>>>>

RecipeFiles ==
  { MissingJson, InvalidJson, Json(<<>>),
    Json(<<Rec("toast", <<IngA3>>)>>),
    Json(<<Rec("toast", <<IngB1, IngA1>>)>>),
    Json(<<Rec("toast", <<IngB1>>), Rec("sandwich", <<IngA1>>)>>),
    Json(<<Rec("toast", <<IngA1>>), Rec("sandwich", <<IngA1>>)>>),
    Json(<<Rec("toast", <<IngA1, IngB1>>), Rec("sandwich", <<IngB1, IngA3>>)>>),
    Json(<<Rec("toast", <<>>)>>),
    Json(<<Rec("toast", <<>>), Rec("sandwich", <<IngA1>>)>>),
    Json(<<Rec("toast", <<IngBadAmount>>), Rec("sandwich", <<IngA1>>)>>),
    Json(<<Rec("toast", <<IngNoAmount>>), Rec("sandwich", <<IngA1>>)>>),
    Json(<<Rec("toast", <<IngBadUnit, IngA1>>)>>),
    Json(<<RecNoName, Rec("sandwich", <<IngA1>>)>>) }

\* Ingredient lists as build_recipes builds them.
IngredientLists ==
  { ReadIngredients(<<>>, ys).items :
      ys \in { <<>>, <<IngA1>>, <<IngA2>>, <<IngA3>>, <<IngA1, IngB1>>,
               <<IngB1, IngA2>> } }

\* The handler threads of SocketServer.ThreadingTCPServer, one per request
\* being served, and the files the page uploads.
Threads == 1..MaxThreads

FridgeUploads == {Csv(<<RowA>>), Csv(<<RowB, RowA>>), Csv(<<RowA, RowNoExpiry>>)}
RecipeUploads == {Json(<<Rec("toast", <<IngA1>>)>>), Json(<<Rec("toast", <<IngB1>>)>>)}

(* ------------------------------ actions ------------------------------- *)
Init ==
  /\ fridge = <<>>
  /\ recipes = <<>>
  /\ todays = NoRecipe
  /\ today = Today0
  /\ op = "init"
  /\ old = <<>>
  /\ out = <<>>
  /\ was = NoRecipe
  /\ raised = FALSE
  /\ failed = FALSE
  /\ bad_args = FALSE
  /\ refs = <<>>
  /\ given = <<>>
  /\ date = None
  /\ pc = [t \in Threads |-> "idle"]
  /\ req = [t \in Threads |-> <<>>]
  /\ disk = <<MissingCsv, MissingJson>>
  /\ reply = <<>>
  /\ dirty = FALSE

\* The arguments build_fridge_item is documented to refuse: an empty name, a
\* type outside FoodType, an amount that is no number or not positive, an
\* expiry that is no date.
Malformed(name, amt, food_type, expiry) ==
  \/ Strip(name) = <<>>
  \/ Strip(food_type) \notin FoodTypes
  \/ ~Int_(amt).ok
  \/ Int_(amt).val <= 0
  \/ (expiry # <<>> /\ ~ParseExpiry(expiry).ok)

AmountsWithin(items) == \A i \in 1..Len(items) : items[i].amount <= MaxAmount

\* fridge.build_fridge_item(name, amt, food_type, expiry)
BuildFridgeItem(name, amt, food_type, expiry) ==
  /\ Len(fridge) < MaxItems
  /\ fridge' = build_fridge_item(fridge, name, amt, food_type, expiry)
  /\ failed' = ~ParseFridgeItem(name, amt, food_type, expiry).parsed
  /\ bad_args' = Malformed(name, amt, food_type, expiry)
  /\ refs' = <<>>
  /\ given' = <<>>
  /\ date' = None
  /\ UNCHANGED server
  /\ op' = "build_fridge_item"
  /\ old' = fridge
  /\ out' = <<>>
  /\ raised' = FALSE
  /\ was' = todays
  /\ UNCHANGED <<recipes, todays, today>>

\* fridge._compact_food_list(fridge.items)
CompactFoodList ==
  \E r \in {_compact_food_list(fridge, [i \in 1..Len(fridge) |-> i])} :
     /\ AmountsWithin(r.items)
     /\ fridge' = r.items
     /\ out' = Deref(r.items, r.list)
     /\ op' = "_compact_food_list"
     /\ old' = fridge
     /\ raised' = FALSE
     /\ failed' = FALSE
     /\ bad_args' = FALSE
     /\ refs' = r.list
     /\ given' = fridge
     /\ date' = None
     /\ UNCHANGED server
     /\ was' = todays
  /\ UNCHANGED <<recipes, todays, today>>

\* fridge.todays_food()
TodaysFood ==
  \E r \in {todays_food(fridge, today)} :
     /\ AmountsWithin(r.items)
     /\ fridge' = r.items
     /\ out' = Deref(r.items, r.list)
     /\ raised' = r.raised
     /\ op' = "todays_food"
     /\ old' = fridge
     /\ failed' = FALSE
     /\ bad_args' = FALSE
     /\ refs' = r.list
     /\ given' = <<>>
     /\ date' = None
     /\ UNCHANGED server
     /\ was' = todays
  /\ UNCHANGED <<recipes, todays, today>>

\* fridge._compact_food_list(food) on the FoodList the last call returned.
CompactResult ==
  /\ op \in {"_compact_food_list", "todays_food", "_compact_food_list(result)"}
  /\ ~raised
  /\ \E r \in {_compact_food_list(fridge, refs)} :
       /\ AmountsWithin(r.items)
       /\ fridge' = r.items
       /\ out' = Deref(r.items, r.list)
       /\ refs' = r.list
       /\ given' = out
       /\ date' = None
       /\ UNCHANGED server
       /\ op' = "_compact_food_list(result)"
       /\ old' = fridge
       /\ raised' = FALSE
       /\ failed' = FALSE
       /\ bad_args' = FALSE
       /\ was' = todays
  /\ UNCHANGED <<recipes, todays, today>>

\* The calendar day changes: datetime.date.today() returns the next date.
Midnight ==
  /\ today < LastDay
  /\ today' = today + 1
  /\ op' = "midnight"
  /\ old' = <<>>
  /\ out' = <<>>
  /\ was' = todays
  /\ raised' = FALSE
  /\ failed' = FALSE
  /\ bad_args' = FALSE
  /\ refs' = <<>>
  /\ given' = <<>>
  /\ date' = None
  /\ UNCHANGED server
  /\ UNCHANGED <<fridge, recipes, todays>>

\* rb.build_fridge(filename)
BuildFridge(file) ==
  /\ fridge' = build_fridge(file)
  /\ op' = "build_fridge"
  /\ old' = <<>>
  /\ out' = <<>>
  /\ raised' = FALSE
  /\ failed' = FALSE
  /\ bad_args' = FALSE
  /\ refs' = <<>>
  /\ given' = <<>>
  /\ date' = None
  /\ UNCHANGED server
  /\ was' = todays
  /\ UNCHANGED <<recipes, todays, today>>

\* rb.build_recipes(filename)
BuildRecipes(file) ==
  /\ recipes' = build_recipes(file)
  /\ op' = "build_recipes"
  /\ old' = <<>>
  /\ out' = <<>>
  /\ raised' = FALSE
  /\ failed' = FALSE
  /\ bad_args' = FALSE
  /\ refs' = <<>>
  /\ given' = <<>>
  /\ date' = None
  /\ UNCHANGED server
  /\ was' = todays
  /\ UNCHANGED <<fridge, todays, today>>

\* rb.todays_recipe(): old is the fridge the call started from, out the
\* available food it computed.
TodaysRecipe ==
  \E r \in {todays_recipe(fridge, recipes, todays, today)} :
     /\ AmountsWithin(r.items)
     /\ fridge' = r.items
     /\ todays' = r.todays
     /\ out' = r.all_list
     /\ raised' = r.raised
     /\ op' = "todays_recipe"
     /\ old' = fridge
     /\ failed' = FALSE
     /\ bad_args' = FALSE
     /\ refs' = <<>>
     /\ given' = <<>>
     /\ date' = None
     /\ UNCHANGED server
     /\ was' = todays
     /\ UNCHANGED <<recipes, today>>

\* rb.build_all(fridge_file, recipe_file): build_fridge, build_recipes, then
\* todays_recipe, whose exception is not caught.
BuildAll(fridge_file, recipe_file) ==
  \E items \in {build_fridge(fridge_file)}, recs \in {build_recipes(recipe_file)} :
    \E r \in {todays_recipe(items, recs, todays, today)} :
       /\ fridge' = r.items
       /\ recipes' = recs
       /\ todays' = r.todays
       /\ out' = r.all_list
       /\ raised' = r.raised
       /\ op' = "build_all"
       /\ old' = items
       /\ failed' = FALSE
       /\ bad_args' = FALSE
       /\ refs' = <<>>
       /\ given' = <<>>
       /\ date' = None
       /\ UNCHANGED server
       /\ was' = todays
       /\ UNCHANGED today

Next ==
  \/ \E file \in FridgeFiles : BuildFridge(file)
  \/ \E file \in RecipeFiles : BuildRecipes(file)
  \/ TodaysRecipe
  \/ \E fridge_file \in FridgeFiles, recipe_file \in RecipeFiles :
       BuildAll(fridge_file, recipe_file)
  \/ Midnight

Spec == Init /\ [][Next]_vars

\* rb._get_cooking_date(ingredients, food_list) with the items as food_list.
\* todays_recipe passes a list of dated entries only; so does this call.
GetCookingDate(ingredients) ==
  /\ \A i \in 1..Len(fridge) : fridge[i].expiry # None
  /\ date' = _get_cooking_date(ingredients, fridge)
  /\ UNCHANGED server
  /\ given' = ingredients
  /\ op' = "_get_cooking_date"
  /\ old' = fridge
  /\ out' = <<>>
  /\ refs' = <<>>
  /\ raised' = FALSE
  /\ failed' = FALSE
  /\ bad_args' = FALSE
  /\ was' = todays
  /\ UNCHANGED <<fridge, recipes, todays, today>>

NextFoodList ==
  \/ \E a \in ItemArgs : BuildFridgeItem(a[1], a[2], a[3], a[4])
  \/ CompactFoodList
  \/ TodaysFood
  \/ CompactResult

SpecFoodList == Init /\ [][NextFoodList]_vars

\* The steps of run.py's handlers do not touch the records of the last call.
Records == <<old, out, was, failed, bad_args, refs, given, date>>

\* do_GET for data.json: the thread goes on to food_response.
DoGet(t) ==
  /\ pc[t] = "idle"
  /\ pc' = [pc EXCEPT ![t] = "food_response"]
  /\ req' = [req EXCEPT ![t] = <<"GET">>]
  /\ op' = "do_GET"
  /\ raised' = FALSE
  /\ UNCHANGED <<fridge, recipes, todays, today, disk, reply, dirty>>
  /\ UNCHANGED Records

\* do_POST with a 'fridge-upload' or a 'recipe-upload' field: the thread goes
\* on to prepare_content.
DoPost(t, field, content) ==
  /\ pc[t] = "idle"
  /\ pc' = [pc EXCEPT ![t] = "write"]
  /\ req' = [req EXCEPT ![t] = <<"POST", field, content>>]
  /\ op' = "do_POST"
  /\ raised' = FALSE
  /\ UNCHANGED <<fridge, recipes, todays, today, disk, reply, dirty>>
  /\ UNCHANGED Records

\* prepare_content: the upload is written to FRIDGE_FILE or RECIPE_FILE.
WriteFile(t) ==
  /\ pc[t] = "write"
  /\ disk' = IF req[t][2] = "fridge-upload" THEN <<req[t][3], disk[2]>>
             ELSE <<disk[1], req[t][3]>>
  /\ pc' = [pc EXCEPT ![t] = "fn"]
  /\ op' = "write"
  /\ raised' = FALSE
  /\ UNCHANGED <<fridge, recipes, todays, today, req, reply, dirty>>
  /\ UNCHANGED Records

\* prepare_content: fn(filename), rb.build_fridge or rb.build_recipes reading
\* the file as it is now.
Ingest(t) ==
  /\ pc[t] = "fn"
  /\ IF req[t][2] = "fridge-upload"
     THEN fridge' = build_fridge(disk[1]) /\ UNCHANGED recipes
     ELSE recipes' = build_recipes(disk[2]) /\ UNCHANGED fridge
  /\ dirty' = TRUE
  /\ pc' = [pc EXCEPT ![t] = "todays_recipe"]
  /\ op' = "fn"
  /\ raised' = FALSE
  /\ UNCHANGED <<todays, today, req, disk, reply>>
  /\ UNCHANGED Records

\* prepare_content: rb.todays_recipe(); an exception becomes the 500 response
\* of do_POST.
Recompute(t) ==
  /\ pc[t] = "todays_recipe"
  /\ \E r \in {todays_recipe(fridge, recipes, todays, today)} :
       /\ fridge' = r.items
       /\ todays' = r.todays
       /\ raised' = r.raised
       /\ dirty' = IF r.raised THEN dirty ELSE FALSE
       /\ pc' = [pc EXCEPT ![t] = IF r.raised THEN "idle" ELSE "food_response"]
       /\ req' = [req EXCEPT ![t] = IF r.raised THEN <<>> ELSE @]
       /\ reply' = IF r.raised THEN <<t, 500>> ELSE reply
  /\ op' = "rb.todays_recipe"
  /\ UNCHANGED <<recipes, today, disk>>
  /\ UNCHANGED Records

\* food_response: rb.to_json() of rb as it is now, sent with 200, or 500 when
\* to_json raises.
FoodResponse(t) ==
  /\ pc[t] = "food_response"
  /\ \E json \in {to_json(fridge, todays, today)} :
       /\ reply' = IF json[1] THEN <<t, 200, json[2], json[3]>> ELSE <<t, 500>>
       /\ raised' = ~json[1]
  /\ pc' = [pc EXCEPT ![t] = "idle"]
  /\ req' = [req EXCEPT ![t] = <<>>]
  /\ op' = "food_response"
  /\ UNCHANGED <<fridge, recipes, todays, today, disk, dirty>>
  /\ UNCHANGED Records

NextServer ==
  \/ \E t \in Threads : DoGet(t)
  \/ \E t \in Threads, content \in FridgeUploads : DoPost(t, "fridge-upload", content)
  \/ \E t \in Threads, content \in RecipeUploads : DoPost(t, "recipe-upload", content)
  \/ \E t \in Threads : WriteFile(t)
  \/ \E t \in Threads : Ingest(t)
  \/ \E t \in Threads : Recompute(t)
  \/ \E t \in Threads : FoodResponse(t)

\* The server started without fridge and recipe files.
SpecServer == Init /\ [][NextServer]_vars

NextCookingDate ==
  \/ \E a \in CookingItemArgs : BuildFridgeItem(a[1], a[2], a[3], a[4])
  \/ \E ingredients \in IngredientLists : GetCookingDate(ingredients)

SpecCookingDate == Init /\ [][NextCookingDate]_vars

(* ------------------------------ properties --------------------------- *)
\* A call of todays_recipe has just completed (build_all ends with one).
Selected == op \in {"todays_recipe", "build_all"}

\* C1: calling todays_recipe() twice in a row, with no ingestion in between
\* and on the same day, returns the same recipe both times, and the second
\* call finds the fridge entries as the first call found them.
C1_SecondCallSame ==
  [][(Selected /\ op' = "todays_recipe")
       => (raised' = raised /\ todays' = todays /\ old' = old)]_vars

\* C2: _compact_food_list() and todays_food() leave the source list as it
\* was: the same entries, in the same order, with the same name, kind,
\* quantity and expiry.
C2_SourceUnchanged ==
  op \in {"_compact_food_list", "todays_food"} => fridge = old

\* The sum of the amounts of the entries of list that satisfy Keep.
SumOf(list, Keep(_)) ==
  LET idx == {i \in 1..Len(list) : Keep(list[i])}
      f[S \in SUBSET idx] ==
        IF S = {} THEN 0
        ELSE LET i == CHOOSE j \in S : TRUE IN list[i].amount + f[S \ {i}]
  IN f[idx]

PairsOf(list) == {<<list[i].name, list[i].type>> : i \in 1..Len(list)}

\* C3: the aggregation output has exactly one entry per distinct (name, kind)
\* pair of the input, with the exact sum of the pair's input quantities.
C3_OneEntryPerPair ==
  op = "_compact_food_list" =>
    /\ PairsOf(out) = PairsOf(old)
    /\ \A i, j \in 1..Len(out) :
         (out[i].name = out[j].name /\ out[i].type = out[j].type) => i = j
    /\ \A i \in 1..Len(out) :
         out[i].amount =
           SumOf(old, LAMBDA e : e.name = out[i].name /\ e.type = out[i].type)

\* The cook-by date todays_recipe computed for recipe k, from the available
\* food of the last call.
CookBy(k) == _get_cooking_date(recipes[k].ingredients, out)

FeasibleRecipes == {k \in 1..Len(recipes) : CookBy(k) # None}

\* Some entry of food_list has the name of y and at least its amount.
Matched(y, food_list) ==
  \E j \in 1..Len(food_list) :
    food_list[j].name = y.name /\ food_list[j].amount >= y.amount

\* C4: when at least one recipe is feasible, todays_recipe() returns a
\* feasible recipe with the least cook-by date, and among the recipes with
\* that date the first of the recipe sequence.
C4_MinDateFirst ==
  (Selected /\ ~raised /\ FeasibleRecipes # {}) =>
    \E k \in FeasibleRecipes :
      /\ todays = recipes[k]
      /\ \A j \in FeasibleRecipes : CookBy(k) <= CookBy(j)
      /\ \A j \in FeasibleRecipes : j < k => CookBy(j) # CookBy(k)

C4_Witness ==
  /\ op = "todays_recipe" /\ ~raised
  /\ \E j, k \in FeasibleRecipes :
       /\ j < k /\ recipes[j] # recipes[k] /\ CookBy(j) = CookBy(k)
       /\ \A i \in FeasibleRecipes : CookBy(j) <= CookBy(i)
       /\ todays = recipes[j]

\* C5: a recipe with a required ingredient that no available entry of the
\* same name and sufficient quantity matches gets no cook-by date and is not
\* the recipe todays_recipe() returns, wherever the ingredient stands.
C5_UnmatchedInfeasible ==
  (Selected /\ ~raised) =>
    \A k \in 1..Len(recipes) :
      (\E i \in 1..Len(recipes[k].ingredients) :
         ~Matched(recipes[k].ingredients[i], out))
        => (CookBy(k) = None /\ todays # recipes[k])

C5_Witness ==
  /\ op = "todays_recipe" /\ ~raised
  /\ \E k \in 1..Len(recipes) :
       /\ Len(recipes[k].ingredients) = 2
       /\ Matched(recipes[k].ingredients[1], out)
       /\ ~Matched(recipes[k].ingredients[2], out)
       /\ todays # recipes[k]

WithType(list, i, t) ==
  [j \in 1..Len(list) |->
     IF j = i THEN FoodItem(list[j].amount, t, list[j].name, list[j].expiry)
     ELSE list[j]]

\* C6: matching reads names and quantities only: a recipe has a cook-by date
\* iff it has ingredients and each has an available entry of its name and at
\* least its quantity, and changing the kind of any one available or required
\* entry leaves _get_cooking_date's result as it is.
C6_KindIgnored ==
  (Selected /\ ~raised) =>
    \A k \in 1..Len(recipes) :
      LET ingredients == recipes[k].ingredients
      IN /\ CookBy(k) # None <=>
              /\ ingredients # <<>>
              /\ \A i \in 1..Len(ingredients) : Matched(ingredients[i], out)
         /\ \A t \in FoodTypes :
              /\ \A i \in 1..Len(out) :
                   _get_cooking_date(ingredients, WithType(out, i, t)) = CookBy(k)
              /\ \A i \in 1..Len(ingredients) :
                   _get_cooking_date(WithType(ingredients, i, t), out) = CookBy(k)

C6_Witness ==
  /\ op = "todays_recipe" /\ ~raised
  /\ \E k \in FeasibleRecipes :
       /\ todays = recipes[k]
       /\ \A i \in 1..Len(recipes[k].ingredients), j \in 1..Len(out) :
            out[j].type # recipes[k].ingredients[i].type

\* C8: whenever no recipe is feasible, and so whenever there are no recipes
\* (an empty or missing recipe file), the fridge is empty (a missing fridge
\* file) or every fridge entry is expired, the recipe selected after
\* todays_recipe() is the one named 'Order Takeout' with no ingredients,
\* whatever an earlier call had selected.
C8_SentinelWhenNoneFeasible ==
  ( /\ Selected
    /\ \/ FeasibleRecipes = {}
       \/ recipes = <<>>
       \/ old = <<>>
       \/ \A i \in 1..Len(old) : old[i].expiry # None /\ old[i].expiry < today )
    => (todays.name = "Order Takeout" /\ todays.ingredients = <<>>)

\* C7: todays_food() keeps an entry iff its expiry is on or after today: for
\* each name and kind the result holds the summed amount of the source
\* entries with expiry >= today (those of today included, those of yesterday
\* or earlier not), no entry of the result is expired, and a fridge of
\* expired entries only gives an empty result.
C7_KeepsFromToday ==
  (op = "todays_food" /\ ~raised) =>
    /\ \A p \in PairsOf(old) \cup PairsOf(out) :
         SumOf(out, LAMBDA e : e.name = p[1] /\ e.type = p[2]) =
           SumOf(old, LAMBDA e : e.name = p[1] /\ e.type = p[2] /\ e.expiry >= today)
    /\ \A i \in 1..Len(out) : out[i].expiry >= today
    /\ (\A i \in 1..Len(old) : old[i].expiry < today) => out = <<>>

C7_Witness ==
  /\ op = "todays_food" /\ ~raised
  /\ \E i, j \in 1..Len(old) :
       /\ old[i].expiry = today /\ old[j].expiry = today - 1
       /\ old[i].name = old[j].name /\ old[i].type = old[j].type
  /\ out # <<>>

WellBuilt(e) ==
  /\ e.name # <<>> /\ Strip(e.name) = e.name
  /\ e.amount > 0
  /\ e.type \in FoodTypes

\* C9: build_fridge_item either appends exactly one entry with a non-empty
\* trimmed name, an amount > 0 and a kind of {of, grams, ml, slices}, or, on
\* an empty name, an unknown kind, a non-numeric or non-positive amount or a
\* malformed date, leaves the item list as it was and raises nothing; so
\* every entry of a list built through build_fridge_item has the three
\* properties.
C9_AllOrNothing ==
  /\ \A i \in 1..Len(fridge) : WellBuilt(fridge[i])
  /\ op = "build_fridge_item" =>
       /\ ~raised
       /\ IF bad_args
          THEN fridge = old /\ failed
          ELSE /\ Len(fridge) = Len(old) + 1
               /\ SubSeq(fridge, 1, Len(old)) = old
               /\ WellBuilt(fridge[Len(fridge)])
               /\ ~failed

C9_Witness ==
  /\ op = "build_fridge_item" /\ failed
  /\ fridge = old /\ Len(old) = 2

\* The rows and records ingestion is to keep: every well-formed one, whatever
\* stands before it in the file.
RECURSIVE WellFormedRows(_, _)
WellFormedRows(items, rows) ==
  IF rows = <<>> THEN items
  ELSE LET line == Head(rows)
       IN WellFormedRows(
            IF Len(line) \notin {3, 4} THEN items
            ELSE build_fridge_item(items, line[1], PyStr(line[2]), line[3],
                                   IF Len(line) = 4 THEN line[4] ELSE <<>>),
            Tail(rows))

RECURSIVE WellFormedIngredients(_, _)
WellFormedIngredients(items, ys) ==
  IF ys = <<>> THEN items
  ELSE LET y == Head(ys)
       IN WellFormedIngredients(
            IF ~({"item", "amount", "unit"} \subseteq Keys(y)) \/ ~Int_(Field(y, 2)).ok
            THEN items
            ELSE build_fridge_item(items, Strip(Field(y, 1)),
                                   PyInt(Int_(Field(y, 2)).val),
                                   Strip(Field(y, 3)), <<>>),
            Tail(ys))

RECURSIVE WellFormedRecipes(_, _)
WellFormedRecipes(recs, xs) ==
  IF xs = <<>> THEN recs
  ELSE LET x == Head(xs)
       IN WellFormedRecipes(
            IF ~({"name", "ingredients"} \subseteq Keys(x)) THEN recs
            ELSE Append(recs, RecipeItem(Field(x, 1),
                                         WellFormedIngredients(<<>>, Field(x, 2)))),
            Tail(xs))

\* C10: in build_fridge and build_recipes a malformed record (a row of too
\* few or too many fields, an empty row, a non-numeric amount) is skipped and
\* the well-formed records after it in the file are ingested.
C10_MalformedSkipped ==
  [][/\ \A file \in FridgeFiles :
          (BuildFridge(file) /\ Exists(file))
            => fridge' = WellFormedRows(<<>>, Rows(file))
     /\ \A file \in RecipeFiles :
          (BuildRecipes(file) /\ Exists(file) /\ Valid(file))
            => recipes' = WellFormedRecipes(<<>>, Data(file))]_vars

\* C11: applying _compact_food_list to the list _compact_food_list returned
\* gives a list equal to that list: the same entries in the same order with
\* the same names, kinds, amounts and expiries, and the entries it was given
\* keep their values.
C11_CompactTwiceSame ==
  op = "_compact_food_list(result)" => (out = given /\ fridge = old)

C11_Witness ==
  /\ op = "_compact_food_list(result)"
  /\ out = given /\ Len(out) = 2
  /\ \E i \in 1..Len(out) : out[i].amount > 1
  /\ Len(fridge) = 3

\* C12: todays_food() and todays_recipe() never raise on a fridge of entries
\* build_fridge_item constructed, entries without an expiry included: such an
\* entry is kept in the available food.
C12_NeverRaises ==
  op \in {"todays_food", "todays_recipe", "build_all"} =>
    /\ ~raised
    /\ \A i \in 1..Len(old) :
         old[i].expiry = None =>
           \E j \in 1..Len(out) : out[j].name = old[i].name /\ out[j].type = old[i].type

\* C14: a recipe without ingredients has no cook-by date and is not the
\* recipe todays_recipe() returns, whatever the fridge and the other recipes;
\* when no recipe has ingredients the one named 'Order Takeout' is returned.
C14_EmptyRecipeNeverSelected ==
  (Selected /\ ~raised) =>
    /\ \A k \in 1..Len(recipes) :
         recipes[k].ingredients = <<>> => (CookBy(k) = None /\ todays # recipes[k])
    /\ (\A k \in 1..Len(recipes) : recipes[k].ingredients = <<>>) => todays = NoRecipe

C14_Witness ==
  /\ op = "todays_recipe" /\ ~raised /\ out # <<>>
  /\ Len(recipes) = 1 /\ recipes[1].ingredients = <<>>
  /\ recipes[1] # NoRecipe /\ todays = NoRecipe

\* The entry of food_list that _get_cooking_date is to bind ingredient y to:
\* the first one of its name with at least its amount.
Bound(y, food_list) ==
  CHOOSE j \in 1..Len(food_list) :
    /\ food_list[j].name = y.name /\ food_list[j].amount >= y.amount
    /\ \A h \in 1..(j - 1) :
         ~(food_list[h].name = y.name /\ food_list[h].amount >= y.amount)

\* C15: for ingredients that are not empty and all have a match,
\* _get_cooking_date returns the least expiry among the entries bound, each
\* ingredient being bound to the first entry of food_list with its name and
\* at least its amount; entries after the bound one do not count.
C15_FirstMatchBinds ==
  ( /\ op = "_get_cooking_date"
    /\ given # <<>>
    /\ \A i \in 1..Len(given) : Matched(given[i], old) )
    => /\ \E i \in 1..Len(given) : date = old[Bound(given[i], old)].expiry
       /\ \A i \in 1..Len(given) : date <= old[Bound(given[i], old)].expiry

C15_Witness ==
  /\ op = "_get_cooking_date"
  /\ given # <<>>
  /\ \A i \in 1..Len(given) : Matched(given[i], old)
  /\ \E i \in 1..Len(given) : \E j \in 1..Len(old) :
       /\ j > Bound(given[i], old)
       /\ old[j].name = given[i].name /\ old[j].amount >= given[i].amount
       /\ old[j].expiry < date
  /\ date = old[Bound(given[1], old)].expiry

\* C13: no response is built while rb.fridge or rb.recipes has been rebuilt
\* and rb.todays not yet recomputed, and no two handlers are between their
\* ingest and their recompute at the same time.
C13_IngestRecomputeSerialized ==
  /\ op = "food_response" => ~dirty
  /\ Cardinality({t \in Threads : pc[t] = "todays_recipe"}) <= 1

====
